---- MODULE Spec2Model ----
(***************************************************************************)
(* N-body simulation (n_body_simulation.py): the softened Newtonian force  *)
(* kernel calc_acc and the kick-drift-kick loop of main, with its          *)
(* trajectory buffer pos_save and the in-loop renderer.                    *)
(*                                                                         *)
(* Numbers are exact integers: sums and products are exact, the halving in *)
(* acc*dt/2 is exact because dt is drawn from even values, and the centre- *)
(* of-mass quotient is exact because the inputs are drawn where it divides.*)
(* The one irrational operation, x**(-1.5), is quantised to multiples of   *)
(* 1/Res (floor of Res * x^(-3/2)).  Floating-point rounding of sums and   *)
(* products is outside this model.                                         *)
(***************************************************************************)
EXTENDS Integers, FiniteSets, Sequences, TLC

\* ---------------------------------------------------------------- bounds
MaxN     == 2      \* largest body count of the short runs
MaxTEnd  == 5      \* largest end time of the short runs
LongTEnd == 106    \* end time of the long run (more steps than the trail window)
Res      == 8      \* resolution of the quantised power x**(-1.5)

\* ------------------------------------------------------- program constants
Trail == 50        \* length of the plotted trail, max(i-50,0)

\* ------------------------------------------------------------ input sets
PosVecs  == { <<0,0,0>>, <<1,0,0>>, <<-1,1,0>> }
VelVecs  == { <<0,0,0>>, <<1,0,-1>> }
Masses   == { 1, 2 }
BadMass  == -1     \* a mass the data model excludes
DtSet    == { -2, 0, 2 }
TEndSet  == { -2, 0, 3, MaxTEnd }
SoftSet  == { 0, 1 }

VARIABLES
  N, mass, pos, vel, acc, G, softening, dt, tEnd, plotRealTime,  \* locals of main
  t, Nt, pos_save, t_all, i,                                     \* locals of main
  pc,          \* position in main
  err,         \* the exception that ended main, "" when none
  written,     \* indices k of pos_save[:,:,k] that have been assigned
  calls,       \* number of calc_acc calls made
  steps,       \* number of loop bodies completed
  init,        \* the arguments as supplied: positions, velocities, masses
  start,       \* pos, vel, acc, t as they were at the top of the current step
  view,        \* what the last rendering read
  images       \* indices of the frames written to images/

vars == << N, mass, pos, vel, acc, G, softening, dt, tEnd, plotRealTime,
           t, Nt, pos_save, t_all, i, pc, err, written, calls, steps,
           init, start, view, images >>

\* ------------------------------------------------------------- arithmetic
Bodies(n) == 1..n

Zero3 == <<0,0,0>>

ZeroMat(n) == [b \in Bodies(n) |-> Zero3]

RECURSIVE SumTo(_, _)
\* sum of f[1] .. f[n]
SumTo(f, n) == IF n = 0 THEN 0 ELSE f[n] + SumTo(f, n - 1)

Max(a, b) == IF a >= b THEN a ELSE b

Abs(a) == IF a >= 0 THEN a ELSE -a

\* b divides a
Divides(b, a) == b # 0 /\ a % Abs(b) = 0

\* the exact quotient a / b, used where b divides a
ExactDiv(a, b) == IF b > 0 THEN a \div b ELSE (-a) \div (-b)

\* ceil(a / b) for b # 0
CeilDiv(a, b) ==
  IF b > 0 THEN -((-a) \div b) ELSE -(a \div (-b))

\* x ** (-1.5) for x > 0, in units of 1/Res: floor(Res / x^(3/2))
PowM15(x) ==
  IF x > Res THEN 0
  ELSE CHOOSE w \in 0..Res :
         /\ w * w * x * x * x <= Res * Res
         /\ (w + 1) * (w + 1) * x * x * x > Res * Res

\* the guard of line 29 replaced by a unit weight for the entries it skips
InvR3Unit(s) == IF s > 0 THEN PowM15(s) ELSE Res

\* one entry of inv_r3 after line 29: entries > 0 are raised to -1.5,
\* the others keep the value they have
InvR3(s) == IF s > 0 THEN PowM15(s) ELSE s

\* ------------------------------------------------------------- calc_acc
\* dx[a][b] = x[b] - x[a], for coordinate c
Sep(p, a, b, c) == p[b][c] - p[a][c]

\* entry (a,b) of dx**2 + dy**2 + dz**2 + softening**2
R2(p, soft, a, b) ==
  Sep(p,a,b,1) * Sep(p,a,b,1) + Sep(p,a,b,2) * Sep(p,a,b,2)
    + Sep(p,a,b,3) * Sep(p,a,b,3) + soft * soft

Weight(p, soft, a, b) == InvR3(R2(p, soft, a, b))

\* the product taken with the mass of the attracted body
ContributionOwnMass(p, m, g, soft, a, b, c) ==
  (g * (Sep(p,a,b,c) * Weight(p, soft, a, b))) * m[a]

\* the term of body b in row a of  G * (dx * inv_r3) @ mass
Contribution(p, m, g, soft, a, b, c) ==
  (g * (Sep(p,a,b,c) * Weight(p, soft, a, b))) * m[b]

calc_acc(p, m, g, soft, n) ==
  [a \in Bodies(n) |->
     [c \in 1..3 |->
        SumTo([b \in Bodies(n) |-> Contribution(p, m, g, soft, a, b, c)], n)]]

\* ------------------------------------------------------------------ main
\* mean(mass * vel, 0) / mean(mass), coordinate c
ComVelocity(m, v, n, c) ==
  ExactDiv(SumTo([b \in Bodies(n) |-> m[b] * v[b][c]], n), SumTo(m, n))

ComDefined(m, v, n) ==
  \A c \in 1..3 :
    Divides(SumTo(m, n), SumTo([b \in Bodies(n) |-> m[b] * v[b][c]], n))

\* a full kick in place of the half kick
KickFull(v, a, h, n) ==
  [b \in Bodies(n) |-> [c \in 1..3 |-> v[b][c] + a[b][c] * h]]

\* vel += acc * dt/2.0
Kick(v, a, h, n) ==
  [b \in Bodies(n) |-> [c \in 1..3 |-> v[b][c] + (a[b][c] * h) \div 2]]

\* pos += vel * dt
Drift(p, v, h, n) ==
  [b \in Bodies(n) |-> [c \in 1..3 |-> p[b][c] + v[b][c] * h]]

\* the quotient rounded down instead of up
StepCountFloor(te, h) == IF h > 0 THEN te \div h ELSE (-te) \div (-h)

\* int(np.ceil(tEnd/dt))
StepCount(te, h) == CeilDiv(te, h)

\* a buffer one snapshot short
HistoryLenShort(nt) == nt

\* the number of snapshots allocated: np.zeros((N,3,Nt+1))
HistoryLen(nt) == nt + 1

\* line 70 left out: index 0 keeps the zeros of np.zeros
FirstSnapshotZero(p, n) == ZeroMat(n)

\* the snapshot stored at index 0: pos_save[:,:,0] = pos
FirstSnapshot(p, n) == p

\* step k overwrites index k
SaveIndexSame(k) == k

\* the index written by step k
SaveIndex(k) == k + 1

\* a trail one snapshot longer
WindowLoWide(k) == Max(k - Trail - 1, 0)

\* the slice max(i-50,0):i+1
WindowLo(k) == Max(k - Trail, 0)

WindowHi(k) == k

NoView == [lo |-> 0, hi |-> -1, trail |-> <<>>, cur |-> <<>>, at |-> -1]

ShortInputs ==
  /\ N \in 1..MaxN
  /\ pos \in [Bodies(N) -> PosVecs]
  /\ vel \in [Bodies(N) -> VelVecs]
  /\ mass \in [Bodies(N) -> Masses] \cup {[b \in Bodies(N) |-> BadMass]}
  /\ dt \in DtSet
  /\ tEnd \in TEndSet
  /\ softening \in SoftSet

\* two bodies of equal mass that pass through each other in the first step,
\* so that the force changes sign, and then separate
SwapPair ==
  [pos  |-> (1 :> <<-1,0,0>>) @@ (2 :> <<1,0,0>>),
   vel  |-> (1 :> <<-1,0,0>>) @@ (2 :> <<1,0,0>>),
   mass |-> (1 :> 1) @@ (2 :> 1),
   softening |-> 0]

\* two bodies of unequal mass whose first half-kick cancels their velocity,
\* so that the first step leaves them in place under a non-zero force
HeldPair ==
  [pos  |-> (1 :> <<0,0,0>>) @@ (2 :> <<1,1,1>>),
   vel  |-> (1 :> <<-2,-2,-2>>) @@ (2 :> <<1,1,1>>),
   mass |-> (1 :> 1) @@ (2 :> 2),
   softening |-> 1]

\* the two pairs, run for a few steps and for more steps than the plotted
\* trail is long
PairInputs ==
  /\ N = 2
  /\ \E s \in {SwapPair, HeldPair} :
       /\ pos = s.pos
       /\ vel = s.vel
       /\ mass = s.mass
       /\ softening = s.softening
  /\ dt = 2
  /\ tEnd \in {MaxTEnd, LongTEnd}

Init ==
  /\ (ShortInputs \/ PairInputs)
  /\ ComDefined(mass, vel, N)
  /\ G = 1
  /\ plotRealTime \in BOOLEAN
  /\ t = 0
  /\ acc = ZeroMat(N)
  /\ Nt = 0
  /\ pos_save = <<>>
  /\ t_all = <<>>
  /\ i = 0
  /\ pc = "com"
  /\ err = ""
  /\ written = {}
  /\ calls = 0
  /\ steps = 0
  /\ init = [pos |-> pos, vel |-> vel, mass |-> mass]
  /\ start = [pos |-> pos, vel |-> vel, acc |-> ZeroMat(N), t |-> 0]
  /\ view = NoView
  /\ images = {}

params == << N, mass, G, softening, dt, tEnd, plotRealTime, init >>

\* line 60: vel -= np.mean(mass * vel,0) / np.mean(mass)
ComFrame ==
  /\ pc = "com"
  /\ vel' = [b \in Bodies(N) |->
               [c \in 1..3 |-> vel[b][c] - ComVelocity(mass, vel, N, c)]]
  /\ pc' = "acc0"
  /\ UNCHANGED << params, pos, acc, t, Nt, pos_save, t_all, i, err, written,
                  calls, steps, start, view, images >>

\* line 63: acc = calc_acc( pos, mass, G, softening )
InitAcc ==
  /\ pc = "acc0"
  /\ acc' = calc_acc(pos, mass, G, softening, N)
  /\ calls' = calls + 1
  /\ pc' = "nt"
  /\ UNCHANGED << params, pos, vel, t, Nt, pos_save, t_all, i, err, written,
                  steps, start, view, images >>

\* line 66: Nt = int(np.ceil(tEnd/dt)); tEnd/dt raises ZeroDivisionError
ComputeNt ==
  /\ pc = "nt"
  /\ IF dt = 0
       THEN /\ pc' = "error"
            /\ err' = "ZeroDivisionError"
            /\ Nt' = Nt
       ELSE /\ pc' = "alloc"
            /\ err' = err
            /\ Nt' = StepCount(tEnd, dt)
  /\ UNCHANGED << params, pos, vel, acc, t, pos_save, t_all, i, written,
                  calls, steps, start, view, images >>

\* lines 69-72: pos_save = np.zeros((N,3,Nt+1)); pos_save[:,:,0] = pos;
\* t_all = np.arange(Nt+1)*dt
AllocHistory ==
  /\ pc = "alloc"
  /\ IF HistoryLen(Nt) < 0
       THEN /\ pc' = "error"
            /\ err' = "ValueError"
            /\ UNCHANGED << pos_save, t_all, written >>
       ELSE IF HistoryLen(Nt) = 0
         THEN /\ pc' = "error"
              /\ err' = "IndexError"
              /\ pos_save' = <<>>
              /\ UNCHANGED << t_all, written >>
         ELSE /\ pc' = "head"
              /\ err' = err
              /\ pos_save' = [k \in 0..(HistoryLen(Nt) - 1) |->
                                 IF k = 0 THEN FirstSnapshot(pos, N) ELSE ZeroMat(N)]
              /\ written' = {0}
              /\ t_all' = [k \in 0..Nt |-> k * dt]
  /\ UNCHANGED << params, pos, vel, acc, t, Nt, i, calls, steps, start,
                  view, images >>

\* line 80: for i in range(Nt)
LoopHead ==
  /\ pc = "head"
  /\ IF i < Nt
       THEN /\ pc' = "kick1"
            /\ start' = [pos |-> pos, vel |-> vel, acc |-> acc, t |-> t]
       ELSE /\ pc' = "show"
            /\ start' = start
  /\ UNCHANGED << params, pos, vel, acc, t, Nt, pos_save, t_all, i, err,
                  written, calls, steps, view, images >>

\* line 82: vel += acc * dt/2.0
Kick1 ==
  /\ pc = "kick1"
  /\ vel' = Kick(vel, acc, dt, N)
  /\ pc' = "drift"
  /\ UNCHANGED << params, pos, acc, t, Nt, pos_save, t_all, i, err, written,
                  calls, steps, start, view, images >>

\* line 85: pos += vel * dt
DriftStep ==
  /\ pc = "drift"
  /\ pos' = Drift(pos, vel, dt, N)
  /\ pc' = "force"
  /\ UNCHANGED << params, vel, acc, t, Nt, pos_save, t_all, i, err, written,
                  calls, steps, start, view, images >>

\* calc_acc shifting its pos argument in place to the frame of body 1
UpdateAccInPlace ==
  /\ pc = "force"
  /\ acc' = calc_acc(pos, mass, G, softening, N)
  /\ pos' = [b \in Bodies(N) |-> [c \in 1..3 |-> pos[b][c] - pos[1][c]]]
  /\ calls' = calls + 1
  /\ pc' = "kick2"
  /\ UNCHANGED << params, vel, t, Nt, pos_save, t_all, i, err, written,
                  steps, start, view, images >>

\* line 88: acc = calc_acc( pos, mass, G, softening )
UpdateAcc ==
  /\ pc = "force"
  /\ acc' = calc_acc(pos, mass, G, softening, N)
  /\ calls' = calls + 1
  /\ pc' = "kick2"
  /\ UNCHANGED << params, pos, vel, t, Nt, pos_save, t_all, i, err, written,
                  steps, start, view, images >>

\* line 91: vel += acc * dt/2.0
Kick2 ==
  /\ pc = "kick2"
  /\ vel' = Kick(vel, acc, dt, N)
  /\ pc' = "time"
  /\ UNCHANGED << params, pos, acc, t, Nt, pos_save, t_all, i, err, written,
                  calls, steps, start, view, images >>

\* line 94: t += dt
TimeInc ==
  /\ pc = "time"
  /\ t' = t + dt
  /\ pc' = "save"
  /\ UNCHANGED << params, pos, vel, acc, Nt, pos_save, t_all, i, err, written,
                  calls, steps, start, view, images >>

\* line 97: pos_save[:,:,i+1] = pos
Save ==
  /\ pc = "save"
  /\ pos_save' = [pos_save EXCEPT ![SaveIndex(i)] = pos]
  /\ written' = written \cup {SaveIndex(i)}
  /\ pc' = "plot"
  /\ UNCHANGED << params, pos, vel, acc, t, Nt, t_all, i, err, calls, steps,
                  start, view, images >>

\* the body of the for loop is complete: the next i of range(Nt)
NextIndex ==
  /\ i' = i + 1
  /\ steps' = steps + 1
  /\ pc' = "head"

\* lines 101-113: the trail pos_save[:,0:2,max(i-50,0):i+1] and the current
\* positions are plotted and saved as images/<i>.png
Render ==
  /\ pc = "plot"
  /\ plotRealTime \/ i = Nt - 1
  /\ view' = [lo |-> WindowLo(i), hi |-> WindowHi(i),
              trail |-> [k \in WindowLo(i)..WindowHi(i) |-> pos_save[k]],
              cur |-> pos, at |-> i]
  /\ images' = images \cup {i}
  /\ NextIndex
  /\ UNCHANGED << params, pos, vel, acc, t, Nt, pos_save, t_all, err, written,
                  calls, start >>

\* line 101, condition false: no frame for this step
SkipRender ==
  /\ pc = "plot"
  /\ ~(plotRealTime \/ i = Nt - 1)
  /\ NextIndex
  /\ UNCHANGED << params, pos, vel, acc, t, Nt, pos_save, t_all, err, written,
                  calls, start, view, images >>

\* lines 117-119: plt.show(); return 0
Finish ==
  /\ pc = "show"
  /\ pc' = "done"
  /\ UNCHANGED << params, pos, vel, acc, t, Nt, pos_save, t_all, i, err,
                  written, calls, steps, start, view, images >>

Next ==
  \/ ComFrame
  \/ InitAcc
  \/ ComputeNt
  \/ AllocHistory
  \/ LoopHead
  \/ Kick1
  \/ DriftStep
  \/ UpdateAcc
  \/ Kick2
  \/ TimeInc
  \/ Save
  \/ Render
  \/ SkipRender
  \/ Finish

Spec == Init /\ [][Next]_vars

\* main runs on one thread and nothing blocks it: every enabled step is taken
FairSpec == Spec /\ WF_vars(Next)

TypeOK ==
  /\ pc \in {"com", "acc0", "nt", "alloc", "head", "kick1", "drift", "force",
             "kick2", "time", "save", "plot", "show", "done", "error"}
  /\ written \subseteq DOMAIN pos_save

\* ------------------------------------------------------------ properties
InLoop == pc \in {"head", "kick1", "drift", "force", "kick2", "time", "save"}

NonZero(m, n) == \E b \in Bodies(n) : m[b] # Zero3

\* C1: after k completed steps exactly the snapshots 0..k have been recorded,
\* step k writes index k+1, and at termination the history holds exactly
\* Nt+1 snapshots and the time sequence exactly Nt+1 samples.
C1_OneSnapshotPerStep ==
  /\ (InLoop \/ pc \in {"show", "done"}) => (steps = i /\ written = 0..steps)
  /\ pc = "plot" => (steps = i /\ written = 0..(i + 1))
  /\ pc \in {"show", "done"} =>
       /\ steps = Nt
       /\ DOMAIN pos_save = 0..Nt
       /\ Cardinality(DOMAIN pos_save) = Nt + 1
       /\ written = DOMAIN pos_save
       /\ Cardinality(DOMAIN t_all) = Nt + 1

C1_Witness == pc = "done" /\ Nt >= 2 /\ steps = Nt

\* C2: history[0] equals the initial positions in every state of the run and
\* at termination, although pos itself is changed by every drift; with Nt = 0
\* no step runs and the history is that single snapshot.
C2_FirstSnapshotIsInitial ==
  /\ 0 \in DOMAIN pos_save => pos_save[0] = init.pos
  /\ (pc = "done" /\ Nt = 0) =>
       (steps = 0 /\ DOMAIN pos_save = {0} /\ pos_save[0] = init.pos)

C2_Witness == pc = "done" /\ Nt >= 1 /\ pos # init.pos /\ NonZero(init.pos, N)

\* C3: the history is append-only: a snapshot that has been recorded stays
\* recorded and keeps its value through every later step, force evaluation
\* and rendering.
C3_AppendOnly ==
  [][\A k \in written : k \in written' /\ pos_save'[k] = pos_save[k]]_vars

C3_Witness ==
  pc = "done" /\ Nt >= 2 /\ pos_save[1] # pos_save[0] /\ pos_save[2] # pos_save[1]

HalfKicked(v, a, n) ==
  [b \in Bodies(n) |-> [c \in 1..3 |-> v[b][c] + (a[b][c] * dt) \div 2]]

\* C4: a step is half-kick, drift, force update, half-kick, time increment,
\* append.  The first half-kick uses the accelerations of the positions held
\* at the start of the step, the second those of the post-drift positions,
\* history[k+1] is p_k + (v_k + a_k*dt/2)*dt, and at every step boundary acc
\* is the force kernel applied to the current positions.
C4_StepIsKickDriftKick ==
  /\ pc = "head" => acc = calc_acc(pos, mass, G, softening, N)
  /\ pc = "kick1" =>
       /\ start.pos = pos_save[i]
       /\ start.acc = calc_acc(start.pos, mass, G, softening, N)
  /\ pc = "drift" => vel = HalfKicked(start.vel, start.acc, N)
  /\ pc = "plot" =>
       /\ pos_save[i + 1] =
            [b \in Bodies(N) |-> [c \in 1..3 |->
               start.pos[b][c]
                 + (start.vel[b][c] + (start.acc[b][c] * dt) \div 2) * dt]]
       /\ pos = pos_save[i + 1]
       /\ acc = calc_acc(pos_save[i + 1], mass, G, softening, N)
       /\ vel = HalfKicked(HalfKicked(start.vel, start.acc, N), acc, N)
       /\ t = start.t + dt

C4_Witness ==
  /\ pc = "plot" /\ i >= 1
  /\ NonZero(start.acc, N) /\ NonZero(start.vel, N) /\ acc # start.acc
  /\ pos_save[i] # pos_save[i - 1] /\ pos_save[i + 1] # pos_save[i]

\* C5: the interactions are pairwise symmetric: inv_r3(a,b) = inv_r3(b,a),
\* r_ab = -r_ba, mass_a times the contribution of b to a_a is the negative of
\* mass_b times the contribution of a to a_b, and the mass-weighted sum of
\* the accelerations is the zero vector at every step state.
C5_PairwiseSymmetric ==
  /\ \A a \in Bodies(N), b \in Bodies(N) :
       /\ Weight(pos, softening, a, b) = Weight(pos, softening, b, a)
       /\ \A c \in 1..3 :
            /\ Sep(pos, a, b, c) = -Sep(pos, b, a, c)
            /\ mass[a] * Contribution(pos, mass, G, softening, a, b, c)
                 = -(mass[b] * Contribution(pos, mass, G, softening, b, a, c))
  /\ calls >= 1 =>
       \A c \in 1..3 : SumTo([b \in Bodies(N) |-> mass[b] * acc[b][c]], N) = 0

C5_Witness ==
  /\ pc = "plot" /\ N >= 2 /\ NonZero(acc, N)
  /\ \E a \in Bodies(N), b \in Bodies(N) : mass[a] # mass[b]

InvalidInput ==
  \/ dt <= 0
  \/ tEnd <= 0
  \/ \E b \in Bodies(N) : mass[b] < 0

\* C6: inputs that violate a precondition (dt <= 0, tEnd <= 0, a negative
\* mass) are rejected before any computation: no acceleration is computed, no
\* step is executed and no snapshot is recorded.
C6_InvalidInputRejected ==
  InvalidInput => (calls = 0 /\ steps = 0 /\ written = {} /\ pc # "done")

\* C7: a pair whose softened squared separation is not greater than 0 gets
\* inv_r3 = 0 and contributes zero to a_i, and for every softening >= 0 the
\* self pair contributes zero.
C7_DegeneratePairIsZero ==
  \A a \in Bodies(N), b \in Bodies(N) :
    /\ R2(pos, softening, a, b) <= 0 =>
         /\ Weight(pos, softening, a, b) = 0
         /\ \A c \in 1..3 : Contribution(pos, mass, G, softening, a, b, c) = 0
    /\ \A c \in 1..3 : Contribution(pos, mass, G, softening, a, a, c) = 0
    /\ (calls >= 1 /\ pc \in {"nt", "kick2"} /\ N = 2 /\ a # b
          /\ R2(pos, softening, a, b) <= 0) =>
         acc[a] = Zero3

C7_Witness ==
  /\ calls >= 1 /\ N = 2 /\ softening = 0 /\ pos[1] = pos[2]
  /\ mass[1] # 0 /\ mass[2] # 0

ValidInput == dt > 0 /\ tEnd > 0

\* C8: a run always terminates after exactly Nt = ceil(tEnd/dt) steps, never
\* fewer and never more, and then the current time is Nt*dt, the last entry
\* of the sample times t_i = i*dt.
C8_TerminatesAfterNtSteps ==
  /\ ValidInput => <>(pc = "done")
  /\ [](steps <= Nt \/ pc \in {"com", "acc0", "nt", "alloc", "error"})
  /\ [](pc = "done" =>
          /\ steps = Nt
          /\ t = Nt * dt
          /\ t_all[Nt] = t
          /\ \A k \in DOMAIN t_all : t_all[k] = k * dt
          /\ dt > 0 => (Nt * dt >= tEnd /\ (Nt - 1) * dt < tEnd))

C8_Witness == pc = "done" /\ Nt >= 2 /\ Nt * dt > tEnd

\* C9: no step changes the masses, N, G, the softening length, dt or Nt; a
\* call of calc_acc leaves pos and mass unchanged; the centre-of-mass
\* correction is applied once before the loop and never again.
C9_ParametersFixed ==
  [][ /\ UNCHANGED << N, mass, G, softening, dt, tEnd >>
      /\ pc # "nt" => Nt' = Nt
      /\ pc \in {"acc0", "force"} => (pos' = pos /\ mass' = mass /\ vel' = vel)
      /\ pc' # "com"
      /\ pc \notin {"com", "kick1", "kick2"} => vel' = vel
      /\ pc \in {"kick1", "kick2"} => vel' = HalfKicked(vel, acc, N) ]_vars

C9_Witness == pc = "done" /\ steps >= 2 /\ vel # init.vel /\ calls = steps + 1

\* C10: the renderer at step i reads the snapshots max(i-50,0)..i, at most 51
\* of them and all already recorded, and the current positions, which equal
\* snapshot i+1; it changes neither history nor pos, vel, acc.
C10_RendererReadsRecordedWindow ==
  /\ [](view.at >= 0 =>
          /\ view.lo = (IF view.at - 50 > 0 THEN view.at - 50 ELSE 0)
          /\ view.hi = view.at
          /\ view.hi - view.lo + 1 <= 51
          /\ DOMAIN view.trail = view.lo..view.hi
          /\ \A k \in view.lo..view.hi :
               k \in written /\ k <= view.at /\ view.trail[k] = pos_save[k]
          /\ view.at + 1 \in written
          /\ view.cur = pos_save[view.at + 1])
  /\ [][pc = "plot" => UNCHANGED << pos_save, pos, vel, acc >>]_vars

C10_Witness == view.at > 50 /\ view.lo >= 1 /\ view.hi - view.lo + 1 = 51
====
